---- MODULE Spec2Model ----
(***************************************************************************)
(* License policy checker (policy_checker.py) and smart curation engine    *)
(* (smart_curation_engine.py) of the LicenseCurationToolkit.               *)
(*                                                                         *)
(* Strings are sequences of tokens.  A token is the blank SP, one of the   *)
(* operator words "OR" / "AND", or an atom: a run of characters that holds *)
(* no leading or trailing blank and no operator word ("MIT",               *)
(* "MIT License", "Apache-2.0").  The empty string is << >>.  On this      *)
(* representation str.strip, str.split, the ' OR ' in s test and the       *)
(* f"{a} AND {b}" formatting are computed as Python computes them.         *)
(***************************************************************************)
EXTENDS Integers, Sequences, FiniteSets, TLC

VARIABLES
    policy_file,           \* what opening and parsing the policy file gave
    policy,                \* LicensePolicyChecker.policy / SmartCurationEngine.policy
    approved_licenses,     \* LicensePolicyChecker.approved_licenses
    conditional_licenses,  \* LicensePolicyChecker.conditional_licenses
    forbidden_licenses,    \* LicensePolicyChecker.forbidden_licenses
    call_expr,             \* argument of the latest check_license call (option)
    call_result,           \* value that call returned (option)
    kept,                  \* the first call of a run, as its caller kept it (option)
    evidence_db,           \* SmartCurationEngine.evidence_db
    manual_review,         \* SmartCurationEngine.manual_review
    curations,             \* the list the latest generate_curations call returned
    op,                    \* the engine method called last
    ingested,              \* history: <<package id, expression>> of every license reported
    calls,                 \* history: the load_* calls made, in order, with their input
    loads,                 \* number of load_* calls made
    generations            \* number of generate_curations calls made

checker_vars == <<policy_file, policy, approved_licenses, conditional_licenses,
                  forbidden_licenses, call_expr, call_result, kept>>

engine_vars == <<evidence_db, manual_review, curations, op, ingested, calls, loads, generations>>

vars == <<checker_vars, engine_vars>>

-----------------------------------------------------------------------------
(* Bounds *)

\* Largest number of operands of a generated AND expression.
MaxOperands == 2

\* Largest number of load_* calls on one engine.
MaxLoads == 3

\* Largest number of calls, load_* and generate_curations, on one engine.
MaxCalls == 4

-----------------------------------------------------------------------------
(* Strings *)

SP == " "
OR_SEP  == <<SP, "OR", SP>>     \* the literal ' OR '
AND_SEP == <<SP, "AND", SP>>    \* the literal ' AND '

S(atom) == <<atom>>

\* Optional values: << >> is "key absent", <<v>> is "key present with value v".
None == << >>
Some(v) == <<v>>
Get(opt, default) == IF opt = << >> THEN default ELSE opt[1]

\* Python's None where a dict.get of a missing key puts it in place of a
\* package id or of a status: values that no id and no status string equals.
NoneId == <<"<None>">>
NoneStatus == "<None>"

RECURSIVE lstrip(_)
lstrip(s) == IF s # << >> /\ Head(s) = SP THEN lstrip(Tail(s)) ELSE s

RECURSIVE rstrip(_)
rstrip(s) == IF s # << >> /\ s[Len(s)] = SP THEN rstrip(SubSeq(s, 1, Len(s) - 1)) ELSE s

\* str.strip()
strip(s) == rstrip(lstrip(s))

\* str.find(sep) + 1: the first position where sep occurs in s, 0 if none.
IndexOf(s, sep) ==
    LET hits == {i \in 1..(Len(s) - Len(sep) + 1) : SubSeq(s, i, i + Len(sep) - 1) = sep}
    IN IF hits = {} THEN 0 ELSE CHOOSE i \in hits : \A j \in hits : i <= j

\* sep in s
Contains(s, sep) == IndexOf(s, sep) # 0

\* s.split(sep)
RECURSIVE split(_, _)
split(s, sep) ==
    LET i == IndexOf(s, sep)
    IN IF i = 0 THEN <<s>>
       ELSE <<SubSeq(s, 1, i - 1)>> \o split(SubSeq(s, i + Len(sep), Len(s)), sep)

\* [l.strip() for l in parts]
StripAll(parts) == [i \in 1..Len(parts) |-> strip(parts[i])]

\* sep.join(parts)
RECURSIVE join(_, _)
join(parts, sep) ==
    IF parts = << >> THEN << >>
    ELSE IF Len(parts) = 1 THEN parts[1]
    ELSE parts[1] \o sep \o join(Tail(parts), sep)

Range(f) == {f[i] : i \in DOMAIN f}

-----------------------------------------------------------------------------
(* Vocabulary of the inputs *)

S_MIT      == S("MIT")
S_MITL     == S("MIT License")
S_APACHE   == S("Apache-2.0")
S_APACHEL  == S("Apache License 2.0")
S_GPL2     == S("GPL-2.0-only")
S_GPL3     == S("GPL-3.0-only")
S_LGPL     == S("LGPL-3.0-only")
S_NOASSERTION == S("NOASSERTION")
S_EMPTY    == << >>

\* PolicyStatus (policy_checker.py:18-24)
APPROVED     == "approved"
CONDITIONAL  == "conditional"
FORBIDDEN    == "forbidden"
UNKNOWN      == "unknown"
INCOMPATIBLE == "incompatible"

-----------------------------------------------------------------------------
(* Policy files.  A bucket (approved_licenses, ...) is the sequence of its  *)
(* categories in file order; a category's `licenses` list is kept as a set  *)
(* (the code only iterates it to fill a dict keyed by the id).  The         *)
(* optional keys auto_approve, approvers, conditions, description,          *)
(* use_cases, reason and action of a category are left out of the file, so  *)
(* the .get defaults apply; the first five are copied through unread.       *)

Category(name, licenses, risk) == [name |-> name, licenses |-> licenses, risk_level |-> risk]

Rule(a, b, compatible, reason) ==
    [combination |-> a \o AND_SEP \o b, compatible |-> compatible, reason |-> Some(reason)]

ApprovedChoices ==
    { <<Category("permissive", {S_MIT, S_APACHE}, Some("low"))>>,
      <<Category("permissive", {S_MIT}, None)>>,
      <<Category("permissive", {S_MITL}, Some("low")),
        Category("public_domain", {S_APACHE}, None)>> }

ConditionalChoices ==
    { <<Category("weak_copyleft", {S_LGPL, S_APACHE}, None)>>,
      <<Category("weak_copyleft", {S_LGPL, S_GPL2}, Some("medium"))>> }

ForbiddenChoices ==
    { <<Category("strong_copyleft", {S_GPL3, S_APACHE}, None)>>,
      <<Category("strong_copyleft", {S_GPL3, S_GPL2}, Some("critical"))>> }

CompatibilityChoices ==
    { <<Rule(S_GPL2, S_APACHE, FALSE, "GPL-2.0 is incompatible with Apache-2.0")>>,
      <<Rule(S_APACHE, S_GPL2, TRUE, "reviewed"),
        Rule(S_GPL2, S_APACHE, FALSE, "GPL-2.0 is incompatible with Apache-2.0")>> }

StrategyChoices == {"choose_most_permissive", "choose_most_restrictive"}

\* data['company_license_policy'] of a policy file
Policies ==
    { [approved_licenses |-> a, conditional_licenses |-> c, forbidden_licenses |-> f,
       license_compatibility |-> m,
       special_rules |-> [dual_license_strategy |-> s, unknown_license_action |-> "manual_review"]] :
        a \in ApprovedChoices, c \in ConditionalChoices, f \in ForbiddenChoices,
        m \in CompatibilityChoices, s \in StrategyChoices }

-----------------------------------------------------------------------------
(* LicensePolicyChecker *)

\* A metadata dict.  Every key the checker may set is a field; a key that a
\* dict does not hold is None.
BlankMeta ==
    [category |-> "", risk_level |-> "", reason |-> None, action |-> None,
     approval_required |-> None, dual_license_choice |-> None,
     dual_license_options |-> None, compatibility_issues |-> None, licenses |-> None]

\* The ids one bucket lists, over all its categories.
BucketIds(bucket) == UNION {bucket[i].licenses : i \in DOMAIN bucket}

\* The category whose entry survives for `id`: the last one that lists it.
LastCategory(bucket, id) ==
    bucket[CHOOSE i \in DOMAIN bucket :
              /\ id \in bucket[i].licenses
              /\ \A j \in DOMAIN bucket : id \in bucket[j].licenses => j <= i]

_build_approved_list(pol) ==
    [id \in BucketIds(pol.approved_licenses) |->
        LET data == LastCategory(pol.approved_licenses, id)
        IN [BlankMeta EXCEPT !.category = data.name,
                             !.risk_level = Get(data.risk_level, "low")]]

_build_conditional_list(pol) ==
    [id \in BucketIds(pol.conditional_licenses) |->
        LET data == LastCategory(pol.conditional_licenses, id)
        IN [BlankMeta EXCEPT !.category = data.name,
                             !.risk_level = Get(data.risk_level, "medium"),
                             !.approval_required = Some(TRUE)]]

_build_forbidden_list(pol) ==
    [id \in BucketIds(pol.forbidden_licenses) |->
        LET data == LastCategory(pol.forbidden_licenses, id)
        IN [BlankMeta EXCEPT !.category = data.name,
                             !.reason = Some(""),
                             !.risk_level = Get(data.risk_level, "critical"),
                             !.action = Some("reject")]]

\* LicensePolicyChecker.__init__: the checker object built from a policy.
NewChecker(pol) ==
    [policy |-> pol,
     approved_licenses |-> _build_approved_list(pol),
     conditional_licenses |-> _build_conditional_list(pol),
     forbidden_licenses |-> _build_forbidden_list(pol)]

\* The `mappings` table of normalize_license.
MappingKeys == {S_MITL, S_APACHEL, S("BSD License"),
                S("GNU General Public License v3 or later (GPLv3+)"),
                S("GNU General Public License v3.0"), S("NONE"), S_EMPTY}

Mappings(k) ==
    CASE k = S_MITL -> S_MIT
      [] k = S_APACHEL -> S_APACHE
      [] k = S("BSD License") -> S("BSD-3-Clause")
      [] k = S("GNU General Public License v3 or later (GPLv3+)") -> S("GPL-3.0-or-later")
      [] k = S("GNU General Public License v3.0") -> S_GPL3
      [] k = S("NONE") -> S_NOASSERTION
      [] k = S_EMPTY -> S_NOASSERTION

normalize_license(license_str) ==
    IF license_str = S_EMPTY THEN S_NOASSERTION
    ELSE LET normalized == strip(license_str)
         IN IF normalized \in MappingKeys THEN Mappings(normalized) ELSE normalized

\* f"{lic1} AND {lic2}"
AndOf(lic1, lic2) == lic1 \o AND_SEP \o lic2

\* _check_compatibility comparing the rule with one ordering of the pair only.
_check_compatibility_one_ordering(self, lic1, lic2) ==
    LET compatibility_matrix == self.policy.license_compatibility
        hits == {i \in DOMAIN compatibility_matrix :
                    AndOf(lic1, lic2) = compatibility_matrix[i].combination}
    IN IF hits = {}
       THEN [compatible |-> TRUE, reason |-> "Not explicitly listed as incompatible"]
       ELSE LET combo == compatibility_matrix[CHOOSE i \in hits : \A j \in hits : i <= j]
            IN [compatible |-> combo.compatible, reason |-> Get(combo.reason, "")]

\* The first rule of the matrix that names the pair, in either order.
_check_compatibility(self, lic1, lic2) ==
    LET compatibility_matrix == self.policy.license_compatibility
        hits == {i \in DOMAIN compatibility_matrix :
                    \/ AndOf(lic1, lic2) = compatibility_matrix[i].combination
                    \/ AndOf(lic2, lic1) = compatibility_matrix[i].combination}
    IN IF hits = {}
       THEN [compatible |-> TRUE, reason |-> "Not explicitly listed as incompatible"]
       ELSE LET combo == compatibility_matrix[CHOOSE i \in hits : \A j \in hits : i <= j]
            IN [compatible |-> combo.compatible, reason |-> Get(combo.reason, "")]

\* A value check_license returns, with the checker as the call left it.
\* `ref` names the lookup-table entry the returned dict IS (the code returns
\* self.approved_licenses[normalized] itself, not a copy); None for a dict
\* built by the call.  `metadata` is the dict's content when the call returns.
Result(status, metadata, ref, self) ==
    [status |-> status, metadata |-> metadata, ref |-> ref, self |-> self]

\* The content of a returned dict, read now: a table entry is read from the table.
Deref(self, r) ==
    IF r.ref = None THEN r.metadata
    ELSE LET bucket == r.ref[1][1]
             id == r.ref[1][2]
         IN IF bucket = APPROVED THEN self.approved_licenses[id]
            ELSE IF bucket = CONDITIONAL THEN self.conditional_licenses[id]
            ELSE self.forbidden_licenses[id]

\* metadata['dual_license_choice'] = lic; metadata['dual_license_options'] = licenses
\* on the dict of result r: a table entry is written in the table.
TagDualChoice(self, r, lic, licenses) ==
    LET tagged == [Deref(self, r) EXCEPT !.dual_license_choice = Some(lic),
                                         !.dual_license_options = Some(licenses)]
        bucket == r.ref[1][1]
        id == r.ref[1][2]
        self2 == IF r.ref = None THEN self
                 ELSE IF bucket = APPROVED
                      THEN [self EXCEPT !.approved_licenses[id] = tagged]
                 ELSE IF bucket = CONDITIONAL
                      THEN [self EXCEPT !.conditional_licenses[id] = tagged]
                 ELSE [self EXCEPT !.forbidden_licenses[id] = tagged]
    IN Result(r.status, tagged, r.ref, self2)

\* The (i, j), i < j, in the order of the nested loops over `licenses`.
RECURSIVE PairSeq(_, _, _)
PairSeq(i, j, n) ==
    IF i >= n THEN << >>
    ELSE IF j > n THEN PairSeq(i + 1, i + 2, n)
    ELSE <<(<<i, j>>)>> \o PairSeq(i, j + 1, n)

\* The smallest index of `results` whose status is `status`, 0 if none.
FirstWithStatus(results, status) ==
    LET hits == {i \in DOMAIN results : results[i].status = status}
    IN IF hits = {} THEN 0 ELSE CHOOSE i \in hits : \A j \in hits : i <= j

RECURSIVE check_license(_, _)
RECURSIVE _check_dual_license(_, _)
RECURSIVE _check_multi_license(_, _)
RECURSIVE CheckEach(_, _)

\* The loop over `licenses` left after its first iteration.
CheckEach_first_only(self, licenses) ==
    IF licenses = << >> THEN [results |-> << >>, self |-> self]
    ELSE LET r == check_license(self, Head(licenses))
         IN [results |-> <<r>>, self |-> r.self]

\* for lic in licenses: status, metadata = self.check_license(lic); append
CheckEach(self, licenses) ==
    IF licenses = << >> THEN [results |-> << >>, self |-> self]
    ELSE LET r == check_license(self, Head(licenses))
             rest == CheckEach(r.self, Tail(licenses))
         IN [results |-> <<r>> \o rest.results, self |-> rest.self]

check_license(self, license_expression) ==
    LET normalized == normalize_license(license_expression)
    IN IF Contains(normalized, OR_SEP) THEN _check_dual_license(self, normalized)
       ELSE IF Contains(normalized, AND_SEP) THEN _check_multi_license(self, normalized)
       ELSE IF normalized \in DOMAIN self.approved_licenses
            THEN Result(APPROVED, self.approved_licenses[normalized],
                        Some(<<APPROVED, normalized>>), self)
       ELSE IF normalized \in DOMAIN self.conditional_licenses
            THEN Result(CONDITIONAL, self.conditional_licenses[normalized],
                        Some(<<CONDITIONAL, normalized>>), self)
       ELSE IF normalized \in DOMAIN self.forbidden_licenses
            THEN Result(FORBIDDEN, self.forbidden_licenses[normalized],
                        Some(<<FORBIDDEN, normalized>>), self)
       ELSE Result(UNKNOWN,
                   [BlankMeta EXCEPT
                       !.category = "unknown",
                       !.risk_level = "high",
                       !.action = Some(self.policy.special_rules.unknown_license_action),
                       !.reason = Some("License not found in policy database")],
                   None, self)

_check_dual_license(self, license_expr) ==
    LET licenses == StripAll(split(license_expr, OR_SEP))
        each == CheckEach(self, licenses)
        results == each.results
        strategy == each.self.policy.special_rules.dual_license_strategy
        a == FirstWithStatus(results, APPROVED)
        c == FirstWithStatus(results, CONDITIONAL)
    IN IF strategy = "choose_most_permissive" /\ a # 0
       THEN TagDualChoice(each.self, results[a], licenses[a], licenses)
       ELSE IF strategy = "choose_most_permissive" /\ c # 0
       THEN TagDualChoice(each.self, results[c], licenses[c], licenses)
       ELSE Result(FORBIDDEN,
                   [BlankMeta EXCEPT
                       !.category = "dual_licensed",
                       !.risk_level = "high",
                       !.reason = Some("All license options are forbidden or unknown"),
                       !.dual_license_options = Some(licenses)],
                   None, each.self)

_check_multi_license(self, license_expr) ==
    LET licenses == StripAll(split(license_expr, AND_SEP))
        pairs == PairSeq(1, 2, Len(licenses))
        Incompatible(p) == ~_check_compatibility(self, licenses[p[1]], licenses[p[2]]).compatible
        bad == SelectSeq(pairs, Incompatible)
        compatibility_issues ==
            [k \in 1..Len(bad) |->
                [license1 |-> licenses[bad[k][1]],
                 license2 |-> licenses[bad[k][2]],
                 reason |-> _check_compatibility(self, licenses[bad[k][1]],
                                                 licenses[bad[k][2]]).reason]]
        each == CheckEach(self, licenses)
        statuses == each.results
    IN IF compatibility_issues # << >>
       THEN Result(INCOMPATIBLE,
                   [BlankMeta EXCEPT
                       !.category = "multi_licensed_incompatible",
                       !.risk_level = "critical",
                       !.reason = Some("License combination has compatibility issues"),
                       !.compatibility_issues = Some(compatibility_issues),
                       !.licenses = Some(licenses)],
                   None, self)
       ELSE IF \E i \in DOMAIN statuses : statuses[i].status = FORBIDDEN
       THEN Result(FORBIDDEN,
                   [BlankMeta EXCEPT
                       !.category = "multi_licensed_forbidden",
                       !.risk_level = "critical",
                       !.reason = Some("At least one license in combination is forbidden"),
                       !.licenses = Some(licenses)],
                   None, each.self)
       ELSE IF \A i \in DOMAIN statuses : statuses[i].status = APPROVED
       THEN Result(APPROVED,
                   [BlankMeta EXCEPT
                       !.category = "multi_licensed_approved",
                       !.risk_level = "low",
                       !.licenses = Some(licenses)],
                   None, each.self)
       ELSE Result(CONDITIONAL,
                   [BlankMeta EXCEPT
                       !.category = "multi_licensed_conditional",
                       !.risk_level = "medium",
                       !.reason = Some("Multi-license combination requires review"),
                       !.licenses = Some(licenses),
                       !.approval_required = Some(TRUE)],
                   None, each.self)

\* ', '.join(declared_list)
COMMA_SEP == <<",", SP>>

\* The PolicyCheckResult of one package, with the checker as the call left
\* it.  Of the fields of the result those that a reader of the export uses are
\* kept: package_id, normalized_license, policy_status.
check_package(self, package_data) ==
    LET normalized_license == normalize_license(package_data.license)
        r == check_license(self, normalized_license)
    IN [result |-> [package_id |-> package_data.id,
                    normalized_license |-> normalized_license,
                    policy_status |-> r.status],
        self |-> r.self]

\* The results of check_ort_results on the packages of an ORT file.  The
\* records carry no declared_licenses_processed, so the declared license is
\* the declared_licenses list joined, NOASSERTION if the list is empty.
RECURSIVE check_ort_results(_, _)
check_ort_results(self, packages) ==
    IF packages = << >> THEN << >>
    ELSE LET pkg == Head(packages)
             declared_license == IF pkg.declared_licenses = << >> THEN S_NOASSERTION
                                 ELSE join(pkg.declared_licenses, COMMA_SEP)
             r == check_package(self, [id |-> pkg.id, license |-> declared_license])
         IN <<r.result>> \o check_ort_results(r.self, Tail(packages))

\* data['packages'] of the file export_json writes: [r.to_dict() for r in results]
export_json(results) ==
    [i \in DOMAIN results |->
        [package_id |-> results[i].package_id,
         normalized_license |-> results[i].normalized_license,
         policy_status |-> results[i].policy_status]]

-----------------------------------------------------------------------------
(* Expressions handed to check_license *)

\* Operands of the generated compound expressions.
OperandPool == {S_APACHE, S_GPL2}

\* "a AND b AND ..." for every choice of 2..MaxOperands operands.
AndInputs ==
    {join(t, AND_SEP) : t \in UNION {[1..n -> OperandPool] : n \in 2..MaxOperands}}

\* "a OR b" for every two different operands.
OrInputs ==
    {p[1] \o OR_SEP \o p[2] : p \in {q \in OperandPool \X OperandPool : q[1] # q[2]}}

SingleInputs ==
    {S_MIT, S_MITL, S_APACHE, S_APACHEL, S_GPL2, S_GPL3, S_LGPL,
     S("Zlib"), S("NONE"), S_NOASSERTION, S_EMPTY,
     <<SP>> \o S_MIT \o <<SP>>}

SpecialInputs ==
    { S_MIT \o OR_SEP \o S_GPL3,                         \* Scenario A
      S_GPL3 \o OR_SEP \o S_MIT,
      S_GPL3 \o OR_SEP \o S_LGPL \o OR_SEP \o S_MIT,
      S_MITL \o OR_SEP \o S_GPL3,
      S_GPL2 \o AND_SEP \o S_APACHEL,                    \* an alias as operand
      S_MIT \o AND_SEP \o S_APACHE \o AND_SEP \o S_GPL2,
      S_MIT \o AND_SEP \o S_LGPL,
      S_GPL2 \o AND_SEP \o S_APACHE \o OR_SEP \o S_MIT,  \* AND inside OR
      S_MIT \o <<SP, "OR", SP, SP, "OR", SP>> \o S_GPL3, \* "MIT OR  OR GPL-3.0-only"
      S_MIT \o <<SP, "OR", SP>>,                         \* "MIT OR " (trailing operator)
      <<SP, "OR", SP>> \o S_MIT,                         \* " OR MIT" (leading operator)
      S_MIT \o <<SP, "AND", SP, SP, "AND", SP>> \o S_APACHE }

ExprInputs == SingleInputs \cup OrInputs \cup AndInputs \cup SpecialInputs

-----------------------------------------------------------------------------
(* The checker as a state machine *)

\* The checker object held in the variables.
Self ==
    [policy |-> policy,
     approved_licenses |-> approved_licenses,
     conditional_licenses |-> conditional_licenses,
     forbidden_licenses |-> forbidden_licenses]

\* What a caller sees of a call: the returned tuple, as it is when returned.
Returned(r) == [status |-> r.status, metadata |-> r.metadata]

\* LicensePolicyChecker.__init__ on the policy held in `policy`.
CheckerConstructed ==
    /\ approved_licenses = _build_approved_list(policy)
    /\ conditional_licenses = _build_conditional_list(policy)
    /\ forbidden_licenses = _build_forbidden_list(policy)
    /\ call_expr = None
    /\ call_result = None
    /\ kept = None

\* SmartCurationEngine.__init__.
EngineConstructed ==
    /\ evidence_db = << >>
    /\ manual_review = << >>
    /\ curations = << >>
    /\ op = "__init__"
    /\ ingested = {}
    /\ calls = << >>
    /\ loads = 0
    /\ generations = 0

InitChecker ==
    /\ policy_file = "loaded"
    /\ policy \in Policies
    /\ CheckerConstructed
    /\ EngineConstructed

\* One call checker.check_license(e).
CheckLicense(e) ==
    \E r \in {check_license(Self, e)} :
       /\ approved_licenses' = r.self.approved_licenses
       /\ conditional_licenses' = r.self.conditional_licenses
       /\ forbidden_licenses' = r.self.forbidden_licenses
       /\ call_expr' = Some(e)
       /\ call_result' = Some(Returned(r))
       /\ UNCHANGED <<policy, policy_file>>

NextChecker == \E e \in ExprInputs : CheckLicense(e) /\ UNCHANGED <<kept, engine_vars>>

SpecChecker == InitChecker /\ [][NextChecker]_vars

\* A caller that keeps what its first call returned (a copy of the tuple as
\* returned) and goes on classifying.
PurityInputs ==
    {S_MIT, S_MITL, S_APACHE, S_GPL2, S_GPL3, S_LGPL} \cup OrInputs \cup
    {S_MIT \o OR_SEP \o S_GPL3, S_GPL3 \o OR_SEP \o S_LGPL \o OR_SEP \o S_MIT,
     S_MIT \o AND_SEP \o S_APACHE}

CheckLicenseKeeping(e) ==
    /\ CheckLicense(e)
    /\ kept' = IF kept = None THEN Some([expr |-> e, result |-> call_result'[1]]) ELSE kept
    /\ UNCHANGED engine_vars

InitPurity ==
    /\ InitChecker
    /\ Len(policy.license_compatibility) <= 1

NextPurity == \E e \in PurityInputs : CheckLicenseKeeping(e)

SpecPurity == InitPurity /\ [][NextPurity]_vars

-----------------------------------------------------------------------------
(* SmartCurationEngine: data *)

\* Confidence values are kept in thousandths: 0.4 is 400, 1.0 is 1000.
ORT_DECLARED_WEIGHT  == 400
ORT_CONCLUDED_WEIGHT == 500
PYPI_WEIGHT          == 300
POLICY_APPROVED_WEIGHT == 300
SCANCODE_CAP         == 400
SCANCODE_PER_DETECTION == 50
SCANCODE_MIN_SCORE   == 80
APPROVAL_BONUS       == 200
SOURCE_BONUS         == 100
CONFIDENCE_CAP       == 1000
REVIEW_THRESHOLD     == 700

S_UNKNOWN == S("UNKNOWN")
S_NONE    == S("NONE")
S_ZLIB    == S("Zlib")
S_NOT_FOUND == S("Not found")

\* Package ids, in tokens: "PyPI::foo:1.0" and "PyPI::Foobar:2.0".
P_FOO    == <<"PyPI::", "foo", ":", "1.0">>
P_FOOBAR == <<"PyPI::", "Foo", "bar", ":", "2.0">>

\* str.lower(), token by token.
LowerToken(t) ==
    CASE t = "PyPI::" -> "pypi::"
      [] t = "Foo" -> "foo"
      [] OTHER -> t

lower(s) == [i \in DOMAIN s |-> LowerToken(s[i])]

\* The `normalizations` table of _normalize_license.
NormalizationKeys ==
    {S_UNKNOWN, S_NONE, S_EMPTY, S("BSD License"), S("BSD"), S_APACHEL,
     S("Apache 2.0"), S_MITL, S("GNU GPL"), S("GPLv2"), S("GPLv3")}

Normalizations(k) ==
    CASE k = S_UNKNOWN -> S_NOASSERTION
      [] k = S_NONE -> S_NOASSERTION
      [] k = S_EMPTY -> S_NOASSERTION
      [] k = S("BSD License") -> S("BSD-3-Clause")
      [] k = S("BSD") -> S("BSD-3-Clause")
      [] k = S_APACHEL -> S_APACHE
      [] k = S("Apache 2.0") -> S_APACHE
      [] k = S_MITL -> S_MIT
      [] k = S("GNU GPL") -> S("GPL-3.0-or-later")
      [] k = S("GPLv2") -> S_GPL2
      [] k = S("GPLv3") -> S_GPL3

_normalize_license(license_str) ==
    IF license_str = S_EMPTY THEN S_NOASSERTION
    ELSE IF license_str \in NormalizationKeys THEN Normalizations(license_str)
    ELSE license_str

\* evidence_db is a dict in insertion order: the sequence of its values, each
\* with its key `id`.  evidence['licenses'] is likewise the sequence of its
\* values, each with its key `lic`.
NewEvidence(pkg_id, status) ==
    [id |-> pkg_id, policy_status |-> status, licenses |-> << >>,
     confidence |-> 0, sources |-> << >>]

\* The position of key `k` in a dict kept as a sequence, 0 if absent.
KeyIndex(keys, k) ==
    LET hits == {i \in DOMAIN keys : keys[i] = k}
    IN IF hits = {} THEN 0 ELSE CHOOSE i \in hits : TRUE

\* The keys of evidence_db and of a `licenses` dict, in order.
IdOf(db) == [i \in DOMAIN db |-> db[i].id]
LicOf(licenses) == [i \in DOMAIN licenses |-> licenses[i].lic]

\* if pkg_id not in self.evidence_db: self.evidence_db[pkg_id] = {...}
EnsurePackage(db, pkg_id, status) ==
    IF KeyIndex(IdOf(db), pkg_id) # 0 THEN db
    ELSE Append(db, NewEvidence(pkg_id, status))

\* if lic not in licenses: licenses[lic] = {'sources': [], 'confidence': 0}
\* licenses[lic]['sources'].append(source); licenses[lic]['confidence'] += weight
AddLicenseEvidence(licenses, lic, source, weight) ==
    LET present == IF KeyIndex(LicOf(licenses), lic) # 0 THEN licenses
                   ELSE Append(licenses, [lic |-> lic, sources |-> << >>, confidence |-> 0])
        i == KeyIndex(LicOf(present), lic)
    IN [present EXCEPT ![i].sources = Append(@, source),
                    ![i].confidence = @ + weight]

\* The same on evidence_db[pkg_id]['licenses'].
AddEvidence(db, pkg_id, lic, source, weight) ==
    LET i == KeyIndex(IdOf(db), pkg_id)
    IN [db EXCEPT ![i].licenses = AddLicenseEvidence(@, lic, source, weight)]

-----------------------------------------------------------------------------
(* SmartCurationEngine: operations *)

\* An entry of a `packages` list that is a YAML/JSON scalar where a mapping is
\* expected; pkg.get raises AttributeError on it.
Scalar(text) == [scalar |-> text]

IsMapping(pkg) == "scalar" \notin DOMAIN pkg

\* for lic in declared: ... 'ORT_declared', += 0.4
RECURSIVE AddDeclared(_, _, _)
AddDeclared(db, pkg_id, declared) ==
    IF declared = << >> THEN db
    ELSE AddDeclared(AddEvidence(db, pkg_id, Head(declared), "ORT_declared",
                                 ORT_DECLARED_WEIGHT),
                     pkg_id, Tail(declared))

\* The body of the loop of load_ort_results for one package record.
OrtPackage(db, pkg) ==
    LET pkg_id == pkg.id
        declared == pkg.declared_licenses
        concluded == pkg.concluded_license
        db1 == AddDeclared(EnsurePackage(db, pkg_id, "UNKNOWN"), pkg_id, declared)
    IN IF concluded # None /\ concluded[1] # S_EMPTY /\ concluded[1] # S_NOASSERTION
       THEN AddEvidence(db1, pkg_id, _normalize_license(concluded[1]), "ORT_concluded",
                        ORT_CONCLUDED_WEIGHT)
       ELSE db1

RECURSIVE load_ort_results(_, _)
load_ort_results(db, packages) ==
    IF packages = << >> THEN db
    ELSE IF ~IsMapping(Head(packages)) THEN db   \* except Exception: the loop is left
    ELSE load_ort_results(OrtPackage(db, Head(packages)), Tail(packages))

\* f"PyPI::{pkg_name}:{pkg_version}"
PypiId(pkg_name, pkg_version) == <<"PyPI::">> \o pkg_name \o <<":">> \o pkg_version

\* The body of the loop of load_pypi_results for one package record.
PypiPackage(db, pkg) ==
    LET license_found == pkg.license_from_pypi
        pkg_id == PypiId(pkg.package_name, pkg.version)
        db1 == EnsurePackage(db, pkg_id, "UNKNOWN")
    IN IF license_found # None /\ license_found[1] # S_EMPTY /\ license_found[1] # S_NOT_FOUND
       THEN AddEvidence(db1, pkg_id, _normalize_license(license_found[1]), "PyPI_API",
                        PYPI_WEIGHT)
       ELSE db1

RECURSIVE load_pypi_results(_, _)
load_pypi_results(db, packages) ==
    IF packages = << >> THEN db
    ELSE IF ~IsMapping(Head(packages)) THEN db   \* except Exception: the loop is left
    ELSE load_pypi_results(PypiPackage(db, Head(packages)), Tail(packages))

Max(a, b) == IF a >= b THEN a ELSE b
Min(a, b) == IF a <= b THEN a ELSE b

KeyOf(found) == [i \in DOMAIN found |-> found[i].key]

\* licenses_found of one scan file: per license key, in order of first
\* detection, the number of detections with score >= 80 and their top score.
RECURSIVE LicensesFound(_, _)
LicensesFound(found, detections) ==
    IF detections = << >> THEN found
    ELSE LET lic == Head(detections)
             present == IF KeyIndex(KeyOf(found), lic.key) # 0 THEN found
                        ELSE Append(found, [key |-> lic.key, count |-> 0, max_score |-> 0])
             i == KeyIndex(KeyOf(present), lic.key)
         IN IF lic.score >= SCANCODE_MIN_SCORE
            THEN LicensesFound([present EXCEPT ![i].count = @ + 1,
                                               ![i].max_score = Max(@, lic.score)],
                               Tail(detections))
            ELSE LicensesFound(found, Tail(detections))

\* min(0.4, stats['count'] * 0.05 + stats['max_score'] / 200)
ConfidenceBoost(stats) ==
    Min(SCANCODE_CAP, stats.count * SCANCODE_PER_DETECTION + stats.max_score * 5)

\* for lic_key, stats in licenses_found.items(): ... 'ScanCode', += confidence_boost
RECURSIVE AddFound(_, _)
AddFound(licenses, found) ==
    IF found = << >> THEN licenses
    ELSE AddFound(AddLicenseEvidence(licenses, Head(found).key, "ScanCode",
                                     ConfidenceBoost(Head(found))),
                  Tail(found))

\* The position of the key None in evidence_db, 0 if absent: pkg_id.lower()
\* raises AttributeError there.
NoneIndex(db) == KeyIndex(IdOf(db), NoneId)

\* The body of the loop of load_scancode_results for one result file; the
\* loop over evidence_db stops at the key None.
ScancodeFile(db, json_file) ==
    LET pkg_name == json_file.stem
        licenses_found == LicensesFound(<< >>, json_file.detections)
    IN [i \in DOMAIN db |->
           IF /\ NoneIndex(db) = 0 \/ i < NoneIndex(db)
              /\ Contains(lower(db[i].id), lower(pkg_name))
           THEN [db[i] EXCEPT !.licenses = AddFound(@, licenses_found)]
           ELSE db[i]]

RECURSIVE load_scancode_results(_, _)
load_scancode_results(db, json_files) ==
    IF json_files = << >> THEN db
    ELSE IF NoneIndex(db) # 0
    THEN ScancodeFile(db, Head(json_files))   \* except Exception: the loop is left
    ELSE load_scancode_results(ScancodeFile(db, Head(json_files)), Tail(json_files))

\* The body of the loop of load_policy_results for one package record.
PolicyPackage(db, pkg) ==
    LET pkg_id == IF "id" \in DOMAIN pkg THEN pkg.id ELSE NoneId
        status == IF "status" \in DOMAIN pkg THEN pkg.status ELSE NoneStatus
        db1 == IF KeyIndex(IdOf(db), pkg_id) = 0
               THEN Append(db, NewEvidence(pkg_id, status))
               ELSE [db EXCEPT ![KeyIndex(IdOf(db), pkg_id)].policy_status = status]
        i == KeyIndex(IdOf(db1), pkg_id)
    IN IF status = "APPROVED"
       THEN [db1 EXCEPT ![i].confidence = @ + POLICY_APPROVED_WEIGHT,
                        ![i].sources = Append(@, "policy_approved")]
       ELSE IF status = "FORBIDDEN"
       THEN [db1 EXCEPT ![i].confidence = 0,
                        ![i].sources = Append(@, "policy_forbidden")]
       ELSE db1

RECURSIVE load_policy_results(_, _)
load_policy_results(db, packages) ==
    IF packages = << >> THEN db
    ELSE load_policy_results(PolicyPackage(db, Head(packages)), Tail(packages))

\* license_str in data['licenses'] for some category of approved_licenses
_is_license_approved(pol, license_str) ==
    \E i \in DOMAIN pol.approved_licenses : license_str \in pol.approved_licenses[i].licenses

CapConfidence_uncapped(confidence) == confidence

\* confidence = min(1.0, confidence)
CapConfidence(confidence) == Min(CONFIDENCE_CAP, confidence)

\* The confidence of one entry of licenses with its bonuses, before the cap.
BonusConfidence(pol, lic_data) ==
    lic_data.confidence
    + (IF _is_license_approved(pol, lic_data.lic) THEN APPROVAL_BONUS ELSE 0)
    + (IF Len(lic_data.sources) > 1 THEN SOURCE_BONUS * Len(lic_data.sources) ELSE 0)

\* The candidate _select_best_license scores for one entry of licenses.
Candidate(pol, lic_data) ==
    [license |-> lic_data.lic,
     confidence |-> CapConfidence(BonusConfidence(pol, lic_data)),
     sources |-> lic_data.sources,
     approved |-> _is_license_approved(pol, lic_data.lic)]

Candidates_keep_all(pol, licenses) ==
    [i \in DOMAIN licenses |-> Candidate(pol, licenses[i])]

\* for lic, lic_data in licenses.items(): skip 'NOASSERTION', else append the candidate
Candidates(pol, licenses) ==
    LET scored == [i \in DOMAIN licenses |-> Candidate(pol, licenses[i])]
        Kept(c) == c.license # S_NOASSERTION
    IN SelectSeq(scored, Kept)

\* x sorts before y under key=(approved, confidence), reverse=True
SortsBefore(x, y) ==
    \/ x.approved /\ ~y.approved
    \/ x.approved = y.approved /\ x.confidence > y.confidence

\* candidates.sort(...); best = candidates[0]: the sort is stable, so the
\* first candidate that none sorts before.
BestCandidate(candidates) ==
    LET tops == {i \in DOMAIN candidates :
                    \A j \in DOMAIN candidates : ~SortsBefore(candidates[j], candidates[i])}
    IN candidates[CHOOSE i \in tops : \A j \in tops : i <= j]

_select_best_license_placeholder(pol, evidence) ==
    LET candidates == Candidates(pol, evidence.licenses)
    IN IF candidates = << >>
       THEN Some([license |-> S_NOASSERTION, confidence |-> 0, sources |-> << >>])
       ELSE Some([license |-> BestCandidate(candidates).license,
                  confidence |-> BestCandidate(candidates).confidence,
                  sources |-> BestCandidate(candidates).sources])

\* None (<< >>) or the chosen license with its confidence and sources.  The
\* comment string, built from these, is left out.
_select_best_license(pol, evidence) ==
    LET candidates == Candidates(pol, evidence.licenses)
    IN IF evidence.licenses = << >> \/ candidates = << >> THEN None
       ELSE LET best == BestCandidate(candidates)
            IN Some([license |-> best.license, confidence |-> best.confidence,
                     sources |-> best.sources])

RequiresManualReview_inclusive(confidence) == confidence <= REVIEW_THRESHOLD

\* best_license['confidence'] < 0.7
RequiresManualReview(confidence) == confidence < REVIEW_THRESHOLD

\* The curation generate_curations builds for one package, None if it skips it.
CurationFor(pol, evidence) ==
    IF evidence.policy_status = "APPROVED" /\ evidence.confidence > REVIEW_THRESHOLD THEN None
    ELSE IF evidence.policy_status = "FORBIDDEN" THEN None
    ELSE LET best_license == _select_best_license(pol, evidence)
         IN IF best_license = None THEN None
            ELSE Some([id |-> evidence.id,
                       concluded_license |-> best_license[1].license,
                       confidence |-> best_license[1].confidence,
                       sources |-> best_license[1].sources,
                       requires_manual_review |->
                           RequiresManualReview(best_license[1].confidence)])

\* The list generate_curations returns.
RECURSIVE generate_curations(_, _)
generate_curations(pol, db) ==
    IF db = << >> THEN << >>
    ELSE CurationFor(pol, Head(db)) \o generate_curations(pol, Tail(db))

\* What the call appends to self.manual_review.
NeedsReview(curation) == curation.requires_manual_review
ReviewsOf(returned) == SelectSeq(returned, NeedsReview)

-----------------------------------------------------------------------------
(* The engine as a state machine *)

OrtPkg(pkg_id, declared, concluded) ==
    [id |-> pkg_id, declared_licenses |-> declared, concluded_license |-> concluded]

\* analyzer.result.packages of the ORT result files read
OrtInputs ==
    { <<OrtPkg(P_FOO, <<S_MIT>>, None)>>,
      <<OrtPkg(P_FOO, <<S_GPL3>>, Some(S_GPL3))>>,
      <<OrtPkg(P_FOOBAR, <<S_NOASSERTION>>, Some(S_NOASSERTION))>>,
      <<OrtPkg(P_FOOBAR, <<S_UNKNOWN>>, None)>>,
      <<OrtPkg(P_FOO, <<S_MITL, S_APACHE>>, Some(S_MITL)),
        OrtPkg(P_FOOBAR, << >>, Some(S_EMPTY))>> }

PypiPkg(pkg_name, pkg_version, license_found) ==
    [package_name |-> pkg_name, version |-> pkg_version, license_from_pypi |-> license_found]

\* packages of the PyPI result files read
PypiInputs ==
    { <<PypiPkg(<<"foo">>, <<"1.0">>, Some(S_MITL))>>,
      <<PypiPkg(<<"Foo", "bar">>, <<"2.0">>, Some(S_NOASSERTION))>>,
      <<PypiPkg(<<"foo">>, <<"1.0">>, Some(S_NOT_FOUND)),
        PypiPkg(<<"Foo", "bar">>, <<"2.0">>, Some(S_NONE))>> }

Detection(key, score) == [key |-> key, score |-> score]

\* The result files of the ScanCode directories read: the stem of each file
\* and the license detections of its files, in order.
ScancodeInputs ==
    { <<[stem |-> <<"foo">>,
         detections |-> <<Detection(S_APACHE, 90), Detection(S_GPL3, 100),
                          Detection(S_APACHE, 85), Detection(S_MIT, 50)>>]>>,
      <<[stem |-> <<"foo", "bar">>,
         detections |-> <<Detection(S_NOASSERTION, 95)>>]>> }

\* packages of the policy result files read
PolicyResultInputs ==
    { <<[id |-> P_FOO, status |-> "APPROVED"]>>,
      <<[id |-> P_FOO, status |-> "FORBIDDEN"]>>,
      <<[id |-> P_FOOBAR, status |-> "CONDITIONAL"]>> }

\* The licenses an ORT file reports, by package.
OrtReports(packages) ==
    UNION { {<<packages[i].id, packages[i].declared_licenses[j]>> :
                 j \in DOMAIN packages[i].declared_licenses}
            \cup {<<packages[i].id, packages[i].concluded_license[j]>> :
                      j \in DOMAIN packages[i].concluded_license} :
            i \in {k \in DOMAIN packages : IsMapping(packages[k])} }

\* The licenses a PyPI file reports, by package.
PypiReports(packages) ==
    UNION { {<<PypiId(packages[i].package_name, packages[i].version),
               packages[i].license_from_pypi[j]>> :
                 j \in DOMAIN packages[i].license_from_pypi} :
            i \in {k \in DOMAIN packages : IsMapping(packages[k])} }

\* The licenses a ScanCode directory reports, by package of `db` it is matched to.
ScancodeReports(db, json_files) ==
    UNION { {<<db[i].id, json_files[f].detections[j].key>> :
                 j \in DOMAIN json_files[f].detections} :
            <<f, i>> \in {<<g, k>> \in (DOMAIN json_files) \X (DOMAIN db) :
                             Contains(lower(db[k].id), lower(json_files[g].stem))} }

\* What every load_* call leaves alone, and the history of the call.
Loaded(method, input, reports) ==
    /\ ingested' = ingested \cup reports
    /\ calls' = Append(calls, [method |-> method, input |-> input])
    /\ op' = method
    /\ loads' = loads + 1
    /\ UNCHANGED <<manual_review, curations, generations, checker_vars>>

\* One call engine.load_ort_results(ort_file).
LoadOrt(packages) ==
    /\ loads < MaxLoads
    /\ loads + generations < MaxCalls
    /\ evidence_db' = load_ort_results(evidence_db, packages)
    /\ Loaded("load_ort_results", packages, OrtReports(packages))

\* One call engine.load_pypi_results(pypi_json).
LoadPypi(packages) ==
    /\ loads < MaxLoads
    /\ loads + generations < MaxCalls
    /\ evidence_db' = load_pypi_results(evidence_db, packages)
    /\ Loaded("load_pypi_results", packages, PypiReports(packages))

\* One call engine.load_scancode_results(scancode_dir).
LoadScancode(json_files) ==
    /\ loads < MaxLoads
    /\ loads + generations < MaxCalls
    /\ evidence_db' = load_scancode_results(evidence_db, json_files)
    /\ Loaded("load_scancode_results", json_files, ScancodeReports(evidence_db, json_files))

\* One call engine.load_policy_results(policy_json).
LoadPolicyResults(packages) ==
    /\ loads < MaxLoads
    /\ loads + generations < MaxCalls
    /\ evidence_db' = load_policy_results(evidence_db, packages)
    /\ Loaded("load_policy_results", packages, {})

\* One call engine.generate_curations().
GenerateCurations ==
    /\ loads + generations < MaxCalls
    /\ curations' = generate_curations(policy, evidence_db)
    /\ manual_review' = manual_review \o ReviewsOf(curations')
    /\ op' = "generate_curations"
    /\ generations' = generations + 1
    /\ UNCHANGED <<evidence_db, ingested, calls, loads, checker_vars>>

\* The policy files the engine is run on.
EnginePolicies ==
    { pol \in Policies :
        /\ pol.conditional_licenses \in {c \in ConditionalChoices : S_APACHE \notin c[1].licenses}
        /\ pol.forbidden_licenses \in {f \in ForbiddenChoices : S_APACHE \notin f[1].licenses}
        /\ Len(pol.license_compatibility) = 1
        /\ pol.special_rules.dual_license_strategy = "choose_most_permissive" }

InitEngine ==
    /\ policy_file = "loaded"
    /\ policy \in EnginePolicies
    /\ CheckerConstructed
    /\ EngineConstructed

NextEngine ==
    \/ \E packages \in OrtInputs : LoadOrt(packages)
    \/ \E packages \in PypiInputs : LoadPypi(packages)
    \/ \E json_files \in ScancodeInputs : LoadScancode(json_files)
    \/ \E packages \in PolicyResultInputs : LoadPolicyResults(packages)
    \/ GenerateCurations

SpecEngine == InitEngine /\ [][NextEngine]_vars

\* Result files with a scalar entry among the package records, and the files
\* of the evidence scenarios: a package known with no license, MIT from the
\* manifest and from the registry, a single scan detection, a package that a
\* policy report lists three times as approved.
ScenarioOrtInputs ==
    { <<OrtPkg(P_FOO, <<S_MIT>>, None)>>,
      <<OrtPkg(P_FOO, << >>, None)>>,
      <<OrtPkg(P_FOO, <<S_MIT>>, None), Scalar("n/a"), OrtPkg(P_FOOBAR, <<S_APACHE>>, None)>> }

ScenarioPypiInputs ==
    { <<PypiPkg(<<"foo">>, <<"1.0">>, Some(S_MIT))>>,
      <<Scalar("n/a"), PypiPkg(<<"Foo", "bar">>, <<"2.0">>, Some(S_MIT))>> }

ScenarioScancodeInputs ==
    { <<[stem |-> <<"foo">>, detections |-> <<Detection(S_APACHE, 90)>>]>>,
      <<[stem |-> <<"foo">>, detections |-> <<Detection(S_ZLIB, 100)>>]>> }

ScenarioPolicyResultInputs ==
    { <<[id |-> P_FOO, status |-> "APPROVED"], [id |-> P_FOO, status |-> "APPROVED"],
        [id |-> P_FOO, status |-> "APPROVED"]>> }

NextScenarios ==
    \/ \E packages \in ScenarioOrtInputs : LoadOrt(packages)
    \/ \E packages \in ScenarioPypiInputs : LoadPypi(packages)
    \/ \E json_files \in ScenarioScancodeInputs : LoadScancode(json_files)
    \/ \E packages \in ScenarioPolicyResultInputs : LoadPolicyResults(packages)
    \/ GenerateCurations

SpecScenarios == InitEngine /\ [][NextScenarios]_vars

\* The policy result files that policy_checker.py writes for the ORT files
\* read, under the policy `pol`: export_json of check_ort_results.
ExportedPolicyResults(pol) ==
    { export_json(check_ort_results(NewChecker(pol), packages)) : packages \in OrtInputs }

NextExport ==
    \/ \E packages \in OrtInputs : LoadOrt(packages)
    \/ \E json_files \in ScancodeInputs : LoadScancode(json_files)
    \/ \E packages \in ExportedPolicyResults(policy) : LoadPolicyResults(packages)
    \/ GenerateCurations

SpecExport == InitEngine /\ [][NextExport]_vars

-----------------------------------------------------------------------------
(* Construction from a policy file *)

\* What open() and yaml.safe_load give on the policy file.
PolicyFiles == {"loaded", "missing", "unparsable"}

\* The engine's policy after a failed load: {}.  Every section read with
\* .get(..., {}) is empty.
EmptyPolicy ==
    [approved_licenses |-> << >>, conditional_licenses |-> << >>,
     forbidden_licenses |-> << >>, license_compatibility |-> << >>,
     special_rules |-> [dual_license_strategy |-> "choose_most_permissive",
                        unknown_license_action |-> "manual_review"]]

\* LicensePolicyChecker._load_policy: the policy, or None where it calls
\* sys.exit(1).
CheckerLoadPolicy(file, pol) == IF file = "loaded" THEN Some(pol) ELSE None

\* SmartCurationEngine._load_policy: the policy, or {} with a warning.
EngineLoadPolicy(file, pol) == IF file = "loaded" THEN pol ELSE EmptyPolicy

\* Both programs are started on the same policy file.  Where the checker's
\* run has exited there is no checker object: its tables stay empty and no
\* check_license call is made.
InitConstruction ==
    /\ policy_file \in PolicyFiles
    /\ \E pol \in EnginePolicies :
          /\ policy = EngineLoadPolicy(policy_file, pol)
          /\ approved_licenses = _build_approved_list(Get(CheckerLoadPolicy(policy_file, pol), EmptyPolicy))
          /\ conditional_licenses = _build_conditional_list(Get(CheckerLoadPolicy(policy_file, pol), EmptyPolicy))
          /\ forbidden_licenses = _build_forbidden_list(Get(CheckerLoadPolicy(policy_file, pol), EmptyPolicy))
    /\ call_expr = None
    /\ call_result = None
    /\ kept = None
    /\ EngineConstructed

\* check_license on the checker, if its construction returned.
CheckLicenseConstructed(e) ==
    /\ policy_file = "loaded"
    /\ CheckLicense(e)
    /\ UNCHANGED <<kept, engine_vars>>

NextConstruction ==
    \/ \E e \in {S_MIT, S_GPL3, S_ZLIB} : CheckLicenseConstructed(e)
    \/ \E packages \in ScenarioOrtInputs : LoadOrt(packages)
    \/ GenerateCurations

SpecConstruction == InitConstruction /\ [][NextConstruction]_vars

-----------------------------------------------------------------------------
(* Properties of the checker *)

Called == call_expr # None
Expr == call_expr[1]
Ret == call_result[1]

\* The expression takes the single-license path of check_license.
IsSingle(e) ==
    /\ ~Contains(normalize_license(e), OR_SEP)
    /\ ~Contains(normalize_license(e), AND_SEP)

\* The expression takes the OR path / the AND path of check_license.
IsOrExpr(e) == Contains(normalize_license(e), OR_SEP)
IsAndExpr(e) == ~IsOrExpr(e) /\ Contains(normalize_license(e), AND_SEP)

\* Its operands, as the path splits them.
OrOperands(e) == StripAll(split(normalize_license(e), OR_SEP))
AndOperands(e) == StripAll(split(normalize_license(e), AND_SEP))

\* The status check_license gives an operand on the checker as it is now.
StatusOf(e) == check_license(Self, e).status

ApprovedIds == BucketIds(policy.approved_licenses)
ConditionalIds == BucketIds(policy.conditional_licenses)
ForbiddenIds == BucketIds(policy.forbidden_licenses)

\* C1: every single license id listed under approved_licenses is classified
\* APPROVED by check_license.
C1_ApprovedIdIsApproved ==
    (Called /\ Expr \in ApprovedIds) => Ret.status = APPROVED

\* C2, as stated: an OR-expression with at least one operand that classifies
\* APPROVED is classified APPROVED.
C2_OrWithApprovedOperand ==
    (/\ Called
     /\ IsOrExpr(Expr)
     /\ \E i \in DOMAIN OrOperands(Expr) : StatusOf(OrOperands(Expr)[i]) = APPROVED)
    => Ret.status = APPROVED

\* C2, amended: under a policy whose dual_license_strategy is
\* choose_most_permissive, an OR-expression with at least one operand that
\* classifies APPROVED is classified APPROVED.
C2_OrWithApprovedOperandPermissive ==
    (/\ Called
     /\ policy.special_rules.dual_license_strategy = "choose_most_permissive"
     /\ IsOrExpr(Expr)
     /\ \E i \in DOMAIN OrOperands(Expr) : StatusOf(OrOperands(Expr)[i]) = APPROVED)
    => Ret.status = APPROVED

\* C2 witness: an OR-expression whose first operand is not approved and whose
\* last one is has been classified APPROVED.
C2_Witness ==
    /\ Called
    /\ policy.special_rules.dual_license_strategy = "choose_most_permissive"
    /\ IsOrExpr(Expr)
    /\ Len(OrOperands(Expr)) = 3
    /\ StatusOf(OrOperands(Expr)[1]) = FORBIDDEN
    /\ StatusOf(OrOperands(Expr)[2]) = CONDITIONAL
    /\ StatusOf(OrOperands(Expr)[3]) = APPROVED
    /\ Ret.status = APPROVED

\* Some rule of the matrix names the pair (in either order) as incompatible.
HasIncompatibleRule(a, b) ==
    \E i \in DOMAIN policy.license_compatibility :
        /\ policy.license_compatibility[i].combination \in {AndOf(a, b), AndOf(b, a)}
        /\ ~policy.license_compatibility[i].compatible

\* The first rule of the matrix that names the pair (in either order) says
\* incompatible.
FirstRuleIncompatible(a, b) ==
    \E i \in DOMAIN policy.license_compatibility :
        /\ policy.license_compatibility[i].combination \in {AndOf(a, b), AndOf(b, a)}
        /\ ~policy.license_compatibility[i].compatible
        /\ \A j \in 1..(i - 1) :
              policy.license_compatibility[j].combination \notin {AndOf(a, b), AndOf(b, a)}

\* The index pairs (i < j) of the operands of an AND-expression.
OperandPairs(e) ==
    {q \in (DOMAIN AndOperands(e)) \X (DOMAIN AndOperands(e)) : q[1] < q[2]}

\* The operand pairs (i < j) of an AND-expression that some rule names as
\* incompatible.
IncompatiblePairs(e) ==
    {<<AndOperands(e)[q[1]], AndOperands(e)[q[2]]>> :
        q \in {r \in OperandPairs(e) :
                  HasIncompatibleRule(AndOperands(e)[r[1]], AndOperands(e)[r[2]])}}

\* The operand pairs (i < j) of an AND-expression whose first rule says
\* incompatible.
FirstRuleIncompatiblePairs(e) ==
    {<<AndOperands(e)[q[1]], AndOperands(e)[q[2]]>> :
        q \in {r \in OperandPairs(e) :
                  FirstRuleIncompatible(AndOperands(e)[r[1]], AndOperands(e)[r[2]])}}

\* The pairs the returned compatibility_issues list.
ListedPairs(meta) ==
    {<<Get(meta.compatibility_issues, << >>)[k].license1,
       Get(meta.compatibility_issues, << >>)[k].license2>> :
        k \in DOMAIN Get(meta.compatibility_issues, << >>)}

\* C3, as stated: an AND-expression with at least one pair of operands that
\* has an explicit compatible=false rule is INCOMPATIBLE with risk critical,
\* and compatibility_issues lists exactly the pairs with such a rule.
C3_IncompatiblePairListed ==
    (/\ Called
     /\ IsAndExpr(Expr)
     /\ IncompatiblePairs(Expr) # {})
    => /\ Ret.status = INCOMPATIBLE
       /\ Ret.metadata.risk_level = "critical"
       /\ ListedPairs(Ret.metadata) = IncompatiblePairs(Expr)

\* C3, amended: an AND-expression (' AND ' and no ' OR ') with at least one
\* pair of operands, as written, for which the first rule of
\* license_compatibility naming the pair is compatible=false is INCOMPATIBLE
\* with risk critical, and compatibility_issues lists exactly those pairs.
C3_FirstRuleIncompatiblePairListed ==
    (/\ Called
     /\ IsAndExpr(Expr)
     /\ FirstRuleIncompatiblePairs(Expr) # {})
    => /\ Ret.status = INCOMPATIBLE
       /\ Ret.metadata.risk_level = "critical"
       /\ ListedPairs(Ret.metadata) = FirstRuleIncompatiblePairs(Expr)

\* C3 witness: a three-operand AND-expression with an offending pair and a
\* pair that is not offending has been classified.
C3_Witness ==
    /\ Called
    /\ IsAndExpr(Expr)
    /\ Len(AndOperands(Expr)) = 3
    /\ FirstRuleIncompatiblePairs(Expr) # {}
    /\ \E q \in OperandPairs(Expr) :
          ~FirstRuleIncompatible(AndOperands(Expr)[q[1]], AndOperands(Expr)[q[2]])
    /\ Ret.status = INCOMPATIBLE

\* C4: an id listed in forbidden_licenses is classified FORBIDDEN whatever
\* other bucket lists it, and an id listed in conditional_licenses and
\* approved_licenses is classified CONDITIONAL.
C4_ForbiddenThenConditionalThenApproved ==
    /\ (Called /\ Expr \in ForbiddenIds) => Ret.status = FORBIDDEN
    /\ (Called /\ Expr \in ConditionalIds \cap ApprovedIds /\ Expr \notin ForbiddenIds)
          => Ret.status = CONDITIONAL

\* C5: a check_license call with the expression of the first call returns
\* what the first call returned, whatever was classified in between.
C5_SameExpressionSameResult ==
    (Called /\ kept # None /\ kept[1].expr = Expr) => Ret = kept[1].result

-----------------------------------------------------------------------------
(* Properties of the engine *)

\* The state right after a generate_curations call: `curations` is what the
\* call returned and evidence_db is what it ran on.
Generated == op = "generate_curations"

\* evidence_db[pkg_id]
EvidenceOf(pkg_id) == evidence_db[KeyIndex(IdOf(evidence_db), pkg_id)]

\* C6: after any sequence of load_ort_results / load_pypi_results /
\* load_scancode_results / load_policy_results calls, every suggestion that
\* generate_curations returns has a confidence in [0, 1] (0 .. 1000 thousandths).
C6_ConfidenceInUnitInterval ==
    Generated =>
        \A i \in DOMAIN curations :
            curations[i].confidence >= 0 /\ curations[i].confidence <= 1000

\* A returned suggestion whose evidence, with its bonuses, adds up to more than 1.
C6_Witness ==
    /\ Generated
    /\ \E i \in DOMAIN curations :
          \E j \in DOMAIN EvidenceOf(curations[i].id).licenses :
             LET lic_data == EvidenceOf(curations[i].id).licenses[j]
             IN /\ lic_data.lic = curations[i].concluded_license
                /\ BonusConfidence(policy, lic_data) > 1000

\* License ids in lexicographic (code point) order.
LicenseIdOrder ==
    <<S_EMPTY, S_APACHE, S_APACHEL, S_GPL2, S_GPL3, S_LGPL, S_MIT, S_MITL, S_NONE,
      S_NOASSERTION, S_NOT_FOUND, S_UNKNOWN, S_ZLIB>>

LexLess(a, b) ==
    \E i, j \in DOMAIN LicenseIdOrder :
        i < j /\ LicenseIdOrder[i] = a /\ LicenseIdOrder[j] = b

\* c is to be selected rather than d: the higher score, then the approved one,
\* then the lexicographically smaller license id.
RanksAbove(c, d) ==
    \/ c.confidence > d.confidence
    \/ c.confidence = d.confidence /\ c.approved /\ ~d.approved
    \/ c.confidence = d.confidence /\ c.approved = d.approved /\ LexLess(c.license, d.license)

\* C7: the license of every suggestion is that of the candidate with the
\* highest clamped score; among candidates of equal score the policy-approved
\* one, and among those the lexicographically smallest license id.
C7_HighestScoreSelected ==
    Generated =>
        \A i \in DOMAIN curations :
            LET candidates == Candidates(policy, EvidenceOf(curations[i].id).licenses)
            IN \A k \in DOMAIN candidates :
                  \/ candidates[k].license = curations[i].concluded_license
                  \/ \E b \in DOMAIN candidates :
                        /\ candidates[b].license = curations[i].concluded_license
                        /\ RanksAbove(candidates[b], candidates[k])

\* C8: a package whose selected license classifies as FORBIDDEN under the
\* policy has no entry in the list generate_curations returns.
C8_ForbiddenLicenseNotSuggested ==
    Generated =>
        \A i \in DOMAIN curations :
            check_license(Self, curations[i].concluded_license).status # FORBIDDEN

\* Every license reported for the package, by whichever source, is NOASSERTION.
OnlyNoAssertion(pkg_id) ==
    /\ \E r \in ingested : r[1] = pkg_id
    /\ \A r \in ingested : r[1] = pkg_id => r[2] = S_NOASSERTION

C10_ConcludedLicenseIsReal ==
    Generated =>
        \A i \in DOMAIN curations :
            curations[i].concluded_license \notin {S_NOASSERTION, S_EMPTY, S_UNKNOWN, S_NONE}

\* C11: for every suggestion generate_curations returns,
\* requires_manual_review is true exactly when its confidence is below 0.70;
\* a confidence of exactly 0.70 does not require review.
C11_ReviewIffBelowThreshold ==
    Generated =>
        \A i \in DOMAIN curations :
            curations[i].requires_manual_review <=> (curations[i].confidence < 700)

\* A returned suggestion with a confidence of exactly 0.70, not up for review.
C11_Witness ==
    /\ Generated
    /\ \E i \in DOMAIN curations :
          curations[i].confidence = 700 /\ ~curations[i].requires_manual_review

\* C12: a package for which no license evidence was ingested (its
\* `licenses` map is empty, whether or not a policy status was recorded for
\* it) has no suggestion in the list generate_curations returns.
C12_NoEvidenceNoSuggestion ==
    Generated =>
        \A p \in DOMAIN evidence_db :
            evidence_db[p].licenses = << >> =>
                \A i \in DOMAIN curations : curations[i].id # evidence_db[p].id

\* generate_curations has returned from a run over a package that has a
\* recorded policy status, is not skipped for it, and has no license evidence.
C12_Witness ==
    /\ Generated
    /\ \E p \in DOMAIN evidence_db :
          /\ evidence_db[p].licenses = << >>
          /\ evidence_db[p].policy_status = "CONDITIONAL"

\* C13: after generate_curations, a package whose policy status is APPROVED
\* and whose confidence is above 0.70 is not in the manual_review queue.
C13_ApprovedNotInManualReview ==
    Generated =>
        \A p \in DOMAIN evidence_db :
            (evidence_db[p].policy_status = "APPROVED" /\ evidence_db[p].confidence > 700)
            => \A k \in DOMAIN manual_review : manual_review[k].id # evidence_db[p].id

\* evidence_db after one load_* call on `db`.
LoadCall(db, call) ==
    CASE call.method = "load_ort_results" -> load_ort_results(db, call.input)
      [] call.method = "load_pypi_results" -> load_pypi_results(db, call.input)
      [] call.method = "load_scancode_results" -> load_scancode_results(db, call.input)
      [] call.method = "load_policy_results" -> load_policy_results(db, call.input)

\* evidence_db after the calls `made`, in order, on `db`.
RECURSIVE Replay(_, _)
Replay(db, made) ==
    IF made = << >> THEN db ELSE Replay(LoadCall(db, Head(made)), Tail(made))

\* What a list of suggestions recommends: license, confidence and review flag
\* by package.
Outcome(returned) ==
    { <<returned[i].id, returned[i].concluded_license, returned[i].confidence,
        returned[i].requires_manual_review>> : i \in DOMAIN returned }

\* C14: for the same batches, every order of the load_ort_results /
\* load_pypi_results / load_scancode_results calls leads generate_curations
\* to the same license, confidence and requires_manual_review per package.
C14_IngestionOrderIndependent ==
    (Generated /\ \A c \in DOMAIN calls : calls[c].method # "load_policy_results") =>
        \A order \in Permutations(DOMAIN calls) :
            Outcome(generate_curations(policy,
                        Replay(<< >>, [c \in DOMAIN calls |-> calls[order[c]]])))
            = Outcome(curations)

\* The batch the latest load_* call was given.
LatestBatch == calls[Len(calls)].input

\* The package id of a well-formed record of an ORT or PyPI batch.
RecordId(pkg) ==
    IF "package_name" \in DOMAIN pkg THEN PypiId(pkg.package_name, pkg.version) ELSE pkg.id

\* C15: when one record of a batch is malformed, every well-formed record of
\* the batch is still processed, before or after the malformed one: after
\* load_ort_results / load_pypi_results its package is held in evidence_db.
C15_WellFormedRecordsProcessed ==
    op \in {"load_ort_results", "load_pypi_results"} =>
        \A i \in DOMAIN LatestBatch :
            IsMapping(LatestBatch[i]) =>
                KeyIndex(IdOf(evidence_db), RecordId(LatestBatch[i])) # 0

\* C16: a missing or malformed policy source is fatal at construction: no
\* classification and no curation is ever produced from it.
C16_NoPolicyNoOutput ==
    policy_file # "loaded" =>
        /\ call_result = None
        /\ curations = << >>

IsWord(t) == t # SP

\* The words of an expression: its tokens without the blanks.
Words(e) == SelectSeq(e, IsWord)

\* An expression with an empty operand: a leading, trailing or doubled
\* OR / AND operator.
HasEmptyOperand(e) ==
    /\ Words(e) # << >>
    /\ \/ Words(e)[1] \in {"OR", "AND"}
       \/ Words(e)[Len(Words(e))] \in {"OR", "AND"}
       \/ \E i \in 1..(Len(Words(e)) - 1) :
             Words(e)[i] \in {"OR", "AND"} /\ Words(e)[i + 1] \in {"OR", "AND"}

\* C17: check_license classifies an expression it cannot parse (empty
\* operand: leading, trailing or doubled OR / AND) as UNKNOWN with a
\* non-empty reason.
C17_UnparseableIsUnknown ==
    (Called /\ HasEmptyOperand(Expr)) =>
        /\ Ret.status = UNKNOWN
        /\ Ret.metadata.reason \notin {None, Some("")}

\* The operands of an OR-expression that classify `status`, by position.
OperandsWith(e, status) ==
    {i \in DOMAIN OrOperands(e) : StatusOf(OrOperands(e)[i]) = status}

\* The first operand of an OR-expression that classifies `status`.
FirstOperandWith(e, status) ==
    OrOperands(e)[CHOOSE i \in OperandsWith(e, status) :
                      \A j \in OperandsWith(e, status) : i <= j]

\* C20: for an OR-expression check_license returns the status of the first
\* operand that classifies APPROVED and records that operand as the choice;
\* with no APPROVED operand, the first CONDITIONAL one; with neither,
\* FORBIDDEN with a reason.
C20_OrFirstApprovedThenConditional ==
    (Called /\ IsOrExpr(Expr)) =>
        IF OperandsWith(Expr, APPROVED) # {}
        THEN /\ Ret.status = APPROVED
             /\ Ret.metadata.dual_license_choice = Some(FirstOperandWith(Expr, APPROVED))
        ELSE IF OperandsWith(Expr, CONDITIONAL) # {}
        THEN /\ Ret.status = CONDITIONAL
             /\ Ret.metadata.dual_license_choice = Some(FirstOperandWith(Expr, CONDITIONAL))
        ELSE /\ Ret.status = FORBIDDEN
             /\ Ret.metadata.reason \notin {None, Some("")}

\* The evidence of scenario C: MIT from the manifest (ORT declared) and from
\* the registry API (PyPI), Apache-2.0 from one ScanCode detection.
HoldsScenarioC(evidence) ==
    /\ evidence.policy_status = "UNKNOWN"
    /\ Len(evidence.licenses) = 2
    /\ \E m, a \in DOMAIN evidence.licenses :
          /\ evidence.licenses[m].lic = S_MIT
          /\ evidence.licenses[m].sources \in {<<"ORT_declared", "PyPI_API">>,
                                               <<"PyPI_API", "ORT_declared">>}
          /\ evidence.licenses[a].lic = S_APACHE
          /\ evidence.licenses[a].sources = <<"ScanCode">>

\* C18: for every policy, a package with the evidence of scenario C gets the
\* suggestion MIT with confidence >= 0.70 and requires_manual_review false.
C18_ScenarioCSuggestsMIT ==
    Generated =>
        \A p \in DOMAIN evidence_db :
            HoldsScenarioC(evidence_db[p]) =>
                \E i \in DOMAIN curations :
                    /\ curations[i].id = evidence_db[p].id
                    /\ curations[i].concluded_license = S_MIT
                    /\ curations[i].confidence >= 700
                    /\ ~curations[i].requires_manual_review

\* The ScanCode detections reported for a package: call, file and detection.
ScanDetectionsFor(pkg_id) ==
    UNION { UNION { { <<c, f, d>> : d \in DOMAIN calls[c].input[f].detections } :
                    f \in {g \in DOMAIN calls[c].input :
                              Contains(lower(pkg_id), lower(calls[c].input[g].stem))} } :
            c \in {k \in DOMAIN calls : calls[k].method = "load_scancode_results"} }

DetectionAt(t) == calls[t[1]].input[t[2]].detections[t[3]]

\* Some ORT or PyPI file loaded reports a license for the package.
ReportedByOrtOrPypi(pkg_id) ==
    \E c \in DOMAIN calls :
        \/ /\ calls[c].method = "load_ort_results"
           /\ \E r \in OrtReports(calls[c].input) : r[1] = pkg_id
        \/ /\ calls[c].method = "load_pypi_results"
           /\ \E r \in PypiReports(calls[c].input) : r[1] = pkg_id

\* The only evidence of the package is one ScanCode detection, with a score
\* that counts, of a license the policy does not list.
HoldsScenarioD(evidence) ==
    /\ evidence.policy_status = "UNKNOWN"
    /\ ~ReportedByOrtOrPypi(evidence.id)
    /\ Cardinality(ScanDetectionsFor(evidence.id)) = 1
    /\ \A t \in ScanDetectionsFor(evidence.id) :
          /\ DetectionAt(t).score >= 80
          /\ DetectionAt(t).key \notin ApprovedIds \cup ConditionalIds \cup ForbiddenIds

\* C19: a package whose only evidence is a single ScanCode detection of a
\* license that is not in the policy gets a suggestion, with
\* requires_manual_review true.
C19_ScenarioDSuggestsWithReview ==
    Generated =>
        \A p \in DOMAIN evidence_db :
            HoldsScenarioD(evidence_db[p]) =>
                \E i \in DOMAIN curations :
                    /\ curations[i].id = evidence_db[p].id
                    /\ curations[i].requires_manual_review

-----------------------------------------------------------------------------
(* Properties of the checker and of the engine, continued *)

\* C21: an AND-expression none of whose operand pairs the checker finds
\* incompatible is FORBIDDEN if some operand classifies FORBIDDEN, APPROVED if
\* every operand classifies APPROVED, and CONDITIONAL with approval_required
\* in every other case, an UNKNOWN operand included.
C21_AndStatusFromOperands ==
    (/\ Called
     /\ IsAndExpr(Expr)
     /\ FirstRuleIncompatiblePairs(Expr) = {})
    => IF \E i \in DOMAIN AndOperands(Expr) : StatusOf(AndOperands(Expr)[i]) = FORBIDDEN
       THEN Ret.status = FORBIDDEN
       ELSE IF \A i \in DOMAIN AndOperands(Expr) : StatusOf(AndOperands(Expr)[i]) = APPROVED
       THEN Ret.status = APPROVED
       ELSE /\ Ret.status = CONDITIONAL
            /\ Ret.metadata.approval_required = Some(TRUE)

\* C21 witness: an AND-expression with an approved operand and an UNKNOWN one,
\* none forbidden and no incompatible pair, has been classified CONDITIONAL.
C21_Witness ==
    /\ Called
    /\ IsAndExpr(Expr)
    /\ FirstRuleIncompatiblePairs(Expr) = {}
    /\ \E i \in DOMAIN AndOperands(Expr) : StatusOf(AndOperands(Expr)[i]) = UNKNOWN
    /\ \E i \in DOMAIN AndOperands(Expr) : StatusOf(AndOperands(Expr)[i]) = APPROVED
    /\ \A i \in DOMAIN AndOperands(Expr) : StatusOf(AndOperands(Expr)[i]) # FORBIDDEN
    /\ Ret.status = CONDITIONAL

\* C22: under every compatibility matrix, _check_compatibility gives the same
\* (compatible, reason) for a pair of license ids in either order, for the
\* operands of the expression classified and for every two ids of the inputs.
C22_CompatibilitySymmetric ==
    \A a, b \in OperandPool \cup {S_MIT, S_APACHEL, S_EMPTY}
                \cup (IF Called THEN Range(AndOperands(Expr)) ELSE {}) :
        _check_compatibility(Self, a, b) = _check_compatibility(Self, b, a)

\* C22 witness: an AND-expression whose operands are written in the order
\* opposite to the only rule naming them has been classified INCOMPATIBLE.
C22_Witness ==
    /\ Called
    /\ IsAndExpr(Expr)
    /\ Len(AndOperands(Expr)) = 2
    /\ Len(policy.license_compatibility) = 1
    /\ policy.license_compatibility[1].combination =
          AndOf(AndOperands(Expr)[2], AndOperands(Expr)[1])
    /\ AndOperands(Expr)[1] # AndOperands(Expr)[2]
    /\ ~policy.license_compatibility[1].compatible
    /\ Ret.status = INCOMPATIBLE

\* The expressions that stand for "no license known".
Placeholders == {S_NOASSERTION, S_EMPTY, S_UNKNOWN, S_NONE}

\* C23: after any sequence of load_* calls no package of evidence_db has a
\* placeholder (NOASSERTION, the empty string, UNKNOWN, NONE) among the keys
\* of its candidate map.
C23_NoPlaceholderCandidate ==
    \A p \in DOMAIN evidence_db :
        \A k \in DOMAIN evidence_db[p].licenses :
            evidence_db[p].licenses[k].lic \notin Placeholders

\* C24: for every candidate the selector scores, the approval test that earns
\* the +0.20 bonus holds exactly when check_license classifies the candidate
\* expression APPROVED under the same policy.
C24_BonusIffClassifiedApproved ==
    Generated =>
        \A p \in DOMAIN evidence_db :
            \A k \in DOMAIN evidence_db[p].licenses :
                evidence_db[p].licenses[k].lic # S_NOASSERTION =>
                    (_is_license_approved(policy, evidence_db[p].licenses[k].lic)
                        <=> StatusOf(evidence_db[p].licenses[k].lic) = APPROVED)

\* C25: after any sequence of load_* calls, no source tag occurs twice in the
\* sources of a candidate of evidence_db.
C25_SourcesAreASet ==
    \A p \in DOMAIN evidence_db :
        \A k \in DOMAIN evidence_db[p].licenses :
            \A i, j \in DOMAIN evidence_db[p].licenses[k].sources :
                evidence_db[p].licenses[k].sources[i] = evidence_db[p].licenses[k].sources[j]
                    => i = j

\* C26: after any number of check_license calls the approved, conditional and
\* forbidden lookup tables are what the constructor built from the policy.
C26_PolicyStoreNotMutated ==
    /\ approved_licenses = _build_approved_list(policy)
    /\ conditional_licenses = _build_conditional_list(policy)
    /\ forbidden_licenses = _build_forbidden_list(policy)

\* The records of the policy checker's exports loaded so far.
ExportedRecords ==
    UNION { { calls[c].input[r] :
                r \in {k \in DOMAIN calls[c].input : "package_id" \in DOMAIN calls[c].input[k]} } :
            c \in {k \in DOMAIN calls : calls[k].method = "load_policy_results"} }

\* C27: after generate_curations, every package of an export of the policy
\* checker that was loaded is a key of evidence_db, and a package the checker
\* classed as forbidden has no suggestion.
C27_ExportedStatusRecorded ==
    Generated =>
        \A rec \in ExportedRecords :
            /\ \E p \in DOMAIN evidence_db : evidence_db[p].id = rec.package_id
            /\ rec.policy_status = FORBIDDEN =>
                  \A i \in DOMAIN curations : curations[i].id # rec.package_id

\* C28: an AND-expression with a pair of operands whose normalized ids the
\* compatibility matrix rules incompatible is INCOMPATIBLE, also when an
\* operand is written as an alias of the rule's id.
C28_AliasPairIncompatible ==
    (/\ Called
     /\ IsAndExpr(Expr)
     /\ \E q \in OperandPairs(Expr) :
           FirstRuleIncompatible(normalize_license(AndOperands(Expr)[q[1]]),
                                 normalize_license(AndOperands(Expr)[q[2]])))
    => Ret.status = INCOMPATIBLE

\* The package name inside an id "PyPI::<name>:<version>".
PackageName(pkg_id) == SubSeq(pkg_id, 2, Len(pkg_id) - 2)

\* evidence_db as it was before the latest load_* call.
BeforeLatest == Replay(<< >>, SubSeq(calls, 1, Len(calls) - 1))

\* The packages the latest ScanCode batch has a result file for, by name.
ScannedNames == { lower(LatestBatch[f].stem) : f \in DOMAIN LatestBatch }

\* C29: a load_scancode_results call leaves the evidence of every package
\* that none of its result files is named after as it was.
C29_ScanTouchesOwnPackageOnly ==
    op = "load_scancode_results" =>
        \A p \in DOMAIN BeforeLatest :
            lower(PackageName(BeforeLatest[p].id)) \notin ScannedNames
                => evidence_db[p] = BeforeLatest[p]

\* C30: once generate_curations has been called, manual_review is the list of
\* the suggestions of the latest call that require manual review, and holds
\* no package twice.
C30_ManualReviewIsLatestReviews ==
    generations > 0 =>
        /\ manual_review = ReviewsOf(curations)
        /\ \A i, j \in DOMAIN manual_review :
              manual_review[i].id = manual_review[j].id => i = j

====
